---- MODULE Spec2Model ----
(***************************************************************************)
(* A model of GeoNavision: the proximity cache (storage.py), the POI       *)
(* retrieval pipeline and the "Explore Nearby" handler (app.py) and the    *)
(* markdown table parser (utilities.py).                                   *)
(*                                                                         *)
(* Conventions                                                             *)
(*   - text is a sequence of one-character strings;                        *)
(*   - a coordinate is an integer count of 0.0001 degree (the precision of *)
(*     the page's number inputs), taken next to (0, 0), where one unit of  *)
(*     latitude or of longitude is 11.1 m of arc and the great-circle      *)
(*     distance of two points is the Euclidean one to well under 1 mm;     *)
(*   - a clock reading is a pair (second, microsecond).                    *)
(***************************************************************************)
EXTENDS Integers, Sequences, FiniteSets, TLC

VARIABLES
    store,      \* rows of table cached_queries, in rowid order
    seq,        \* sqlite_sequence of cached_queries: the largest id ever given
    call,       \* the last operation and its arguments
    ret,        \* what the last operation returned
    log,        \* the external calls and st.error messages of the last operation
    session,    \* st.session_state
    memo,       \* the entries of st.cache_data for get_rag_response
    page        \* what the page shows once the last script run is over

vars == <<store, seq, call, ret, log, session, memo, page>>

storeVars == <<store, seq>>

appVars == <<session, memo, page>>

(***************************************************************************)
(* Bounds and input sets                                                   *)
(***************************************************************************)
MaxRecords == 2

\* threshold_meters: int = 100
DefaultThreshold == 100

QueryTexts == { <<"m", "u">>, <<"M", "U">>, <<"c", "a">> }

Locations == { <<0, 0>>, <<0, 1>>, <<1, 0>> }

Thresholds == { 0, 12 }

\* readings of the wall clock: (second, microsecond)
ClockReadings == { [sec |-> 0, micro |-> 0], [sec |-> 0, micro |-> 1],
                   [sec |-> 1, micro |-> 0] }

\* a DataFrame: its column labels and its rows of cells
DataFrames == { [columns |-> <<"A", "B">>, rows |-> << <<"x", "y">> >>] }

Summaries == { "S1" }

\* the most POIs in one answer of the mapping provider
MaxPois == 2

\* the (lat, lng) of a POI as the mapping provider gives them: a coordinate is
\* missing (<<>>), 0.0 (<<0>>) or 0.0009 (<<9>>)
PoiPlaces == { << <<9>>, <<9>> >>, << <<0>>, <<9>> >>, << <<9>>, <<0>> >>,
               << <<9>>, <<>> >>, << <<>>, <<>> >> }

Pois == { [name |-> n, vicinity |-> "v", lat |-> p[1], lng |-> p[2]] :
          n \in {"p1", "p2"}, p \in PoiPlaces }

\* the most lines of a text given to parse_markdown_table
MaxLines == 4

\* the lines a text is made of
LinePool ==
    { <<"A", "|", "B">>,
      <<"-", "|", "-">>,
      <<"x", "|", "y">>,
      <<" ", "|", " ", "x", " ", "|", "y", "|", " ">>,
      <<"x", "|", "y", "|", "z">>,
      <<"|", "|", "x", "|">>,
      <<"n", "o">>,
      <<>> }

SearchResponses ==
    { [kind |-> "http_error"], [kind |-> "bad_payload"],
      [kind |-> "json", items |-> <<>>],
      [kind |-> "json", items |-> <<[snippet |-> <<>>]>>],
      [kind |-> "json", items |-> <<[snippet |-> <<"s1">>]>>] }

\* the sequences over S of length at most n
SeqUpTo(S, n) == UNION { [1 .. k -> S] : k \in 0 .. n }

\* answers of the mapping provider: an HTTP failure, a status that is not OK
\* (with whatever results the body carries), or OK with a list of POIs
MapsResponses ==
    { [kind |-> "http_error"] }
    \cup { [kind |-> "json", status |-> "ZERO_RESULTS", results |-> <<>>] }
    \cup [kind : {"json"}, status : {"OK", "REQUEST_DENIED"},
          results : SeqUpTo(Pois, MaxPois)]

(***************************************************************************)
(* Library functions, by what they compute                                 *)
(***************************************************************************)
\* str.lower() on one character
LowerChar(c) ==
    CASE c = "M" -> "m"
      [] c = "U" -> "u"
      [] c = "C" -> "c"
      [] c = "A" -> "a"
      [] OTHER -> c

\* str.lower()
lower(s) == [i \in DOMAIN s |-> LowerChar(s[i])]

\* The square of great_circle(a, b), in square decimetres: one coordinate
\* unit is 111 dm of arc.
great_circle_sq(a, b) ==
    ((a[1] - b[1]) * (a[1] - b[1]) + (a[2] - b[2]) * (a[2] - b[2])) * 111 * 111

\* great_circle(a, b).meters <= threshold_meters
within(a, b, threshold_meters) ==
    great_circle_sq(a, b) <= (threshold_meters * 10) * (threshold_meters * 10)

\* datetime.isoformat(): the microsecond field is left out when it is 0.
\* A field is fixed-width and zero-padded, so a field is one symbol here.
isoformat(now) ==
    IF now.micro = 0 THEN <<now.sec>> ELSE <<now.sec, now.micro>>

\* Python's < on str: lexicographic, a proper prefix is smaller
RECURSIVE StrLess(_, _)
StrLess(a, b) ==
    IF b = <<>> THEN FALSE
    ELSE IF a = <<>> THEN TRUE
    ELSE IF Head(a) # Head(b) THEN Head(a) < Head(b)
    ELSE StrLess(Tail(a), Tail(b))

\* DataFrame.to_dict('records'): one dict per row, column label -> cell; of two
\* columns with one label the last one's cell is kept
to_dict_records(df) ==
    [r \in DOMAIN df.rows |->
        [c \in {df.columns[j] : j \in DOMAIN df.columns} |->
            LET last == CHOOSE j \in DOMAIN df.columns :
                            /\ df.columns[j] = c
                            /\ \A k \in DOMAIN df.columns :
                                   df.columns[k] = c => k <= j
            IN  df.rows[r][last]]]

\* json.dumps: a JSON text of the value
json_dumps(value) == <<"json", value>>

\* a TEXT value that is no JSON document
Garbage == <<"garbage">>

\* whether json.loads(text) raises
json_loads_raises(text) == text[1] # "json"

\* json.loads
json_loads(text) == text[2]

(***************************************************************************)
(* QueryStorage                                                            *)
(***************************************************************************)
None == [kind |-> "none"]

Fault == [kind |-> "fault"]

Row(data) == [kind |-> "row", row |-> data]

\* SELECT * FROM cached_queries WHERE query = ?   (rows in rowid order)
RECURSIVE select_by_query(_, _)
select_by_query(rows, q) ==
    IF rows = <<>> THEN <<>>
    ELSE IF Head(rows).query = q
         THEN <<Head(rows)>> \o select_by_query(Tail(rows), q)
         ELSE select_by_query(Tail(rows), q)

\* the rows of the loop of lines 58-65 that pass the distance test
RECURSIVE near_rows(_, _, _)
near_rows(rows, user_loc, threshold_meters) ==
    IF rows = <<>> THEN <<>>
    ELSE IF within(user_loc, <<Head(rows).lat, Head(rows).lon>>, threshold_meters)
         THEN <<Head(rows)>> \o near_rows(Tail(rows), user_loc, threshold_meters)
         ELSE near_rows(Tail(rows), user_loc, threshold_meters)

\* sorted(..., key=timestamp, reverse=True): stable, descending
\* insert_desc with reverse=True forgotten: ascending
RECURSIVE insert_asc(_, _)
insert_asc(x, s) ==
    IF s = <<>> THEN <<x>>
    ELSE IF StrLess(x.timestamp, Head(s).timestamp)
         THEN <<x>> \o s
         ELSE <<Head(s)>> \o insert_asc(x, Tail(s))

RECURSIVE insert_desc(_, _)
insert_desc(x, s) ==
    IF s = <<>> THEN <<x>>
    ELSE IF StrLess(Head(s).timestamp, x.timestamp)
         THEN <<x>> \o s
         ELSE <<Head(s)>> \o insert_desc(x, Tail(s))

RECURSIVE sorted_desc(_)
sorted_desc(s) ==
    IF s = <<>> THEN <<>>
    ELSE insert_desc(s[Len(s)], sorted_desc(SubSeq(s, 1, Len(s) - 1)))

\* find_nearby_query that skips a row it cannot decode
find_skipping_undecodable(rows_all, query_text, lat, lon, threshold_meters) ==
    LET rows == select_by_query(rows_all, lower(query_text))
        near == SelectSeq(near_rows(rows, <<lat, lon>>, threshold_meters),
                          LAMBDA r : ~json_loads_raises(r.table_data))
        valid_results ==
            [i \in DOMAIN near |->
                [near[i] EXCEPT !.table_data = json_loads(@)]]
    IN  IF valid_results = <<>> THEN None
        ELSE Row(sorted_desc(valid_results)[1])

\* QueryStorage.find_nearby_query
find_nearby_query(rows_all, query_text, lat, lon, threshold_meters) ==
    LET rows == select_by_query(rows_all, lower(query_text))
        near == near_rows(rows, <<lat, lon>>, threshold_meters)
        valid_results ==
            [i \in DOMAIN near |->
                [near[i] EXCEPT !.table_data = json_loads(@)]]
    IN  IF \E i \in DOMAIN near : json_loads_raises(near[i].table_data)
        THEN Fault
        ELSE IF valid_results = <<>> THEN None
        ELSE Row(sorted_desc(valid_results)[1])

\* new_row that stores the query text as given
new_row_keeping_case(id, query_text, lat, lon, df, summary, now) ==
    [id |-> id, query |-> query_text, lat |-> lat, lon |-> lon,
     summary |-> summary, table_data |-> json_dumps(to_dict_records(df)),
     timestamp |-> isoformat(now)]

\* the row INSERTed by save_query_result; AUTOINCREMENT gives the id
new_row(id, query_text, lat, lon, df, summary, now) ==
    [id |-> id, query |-> lower(query_text), lat |-> lat, lon |-> lon,
     summary |-> summary, table_data |-> json_dumps(to_dict_records(df)),
     timestamp |-> isoformat(now)]

\* save_query_result that replaces the row of the same query and place
save_replacing(rows_all, id, query_text, lat, lon, df, summary, now) ==
    LET row == new_row(id, query_text, lat, lon, df, summary, now)
        same(r) == r.query = row.query /\ r.lat = lat /\ r.lon = lon
    IN  IF \E i \in DOMAIN rows_all : same(rows_all[i])
        THEN [i \in DOMAIN rows_all |->
                 IF same(rows_all[i]) THEN row ELSE rows_all[i]]
        ELSE Append(rows_all, row)

\* the table after save_query_result
save_query_result(rows_all, id, query_text, lat, lon, df, summary, now) ==
    Append(rows_all, new_row(id, query_text, lat, lon, df, summary, now))

(***************************************************************************)
(* GoogleMapsPOIRetriever                                                  *)
(*                                                                         *)
(* An optional number (dict.get of a key that may be missing) is <<>> when *)
(* missing and <<v>> otherwise.  A response of the mapping provider is     *)
(*   [kind |-> "http_error"]  or  [kind |-> "json", status, results];      *)
(* a response of the search provider is                                    *)
(*   [kind |-> "http_error"], [kind |-> "bad_payload"]  or                 *)
(*   [kind |-> "json", items], an item being [snippet |-> <<>> or <<s>>].  *)
(***************************************************************************)
Missing == <<>>

\* Python's truth value of an optional number: None and 0 are false
truthy(x) == x # Missing /\ x[1] # 0

NoDescription == "No description found."

ErrorDescription == "Error fetching description."

NothingFound == "Sorry, I couldn't find anything for that search."

\* _get_pois_from_maps that returns the results whatever the status says
get_pois_ignoring_status(maps_response) ==
    IF maps_response.kind = "http_error" THEN <<>>
    ELSE maps_response.results

\* GoogleMapsPOIRetriever._get_pois_from_maps: the POIs
get_pois_from_maps(maps_response) ==
    IF maps_response.kind = "http_error" THEN <<>>
    ELSE IF maps_response.status = "OK" THEN maps_response.results
    ELSE <<>>

\* GoogleMapsPOIRetriever._get_pois_from_maps: the call and its st.error
maps_events(maps_response) ==
    <<[api |-> "maps", response |-> maps_response]>> \o
    ( IF maps_response.kind = "http_error"
      THEN <<[api |-> "st.error", text |-> "HTTP Error calling Google Maps"]>>
      ELSE IF maps_response.status = "OK" THEN <<>>
      ELSE <<[api |-> "st.error", text |-> "Google Maps API Error"]>> )

\* GoogleMapsPOIRetriever._get_search_snippet: the snippet
get_search_snippet(search_response) ==
    IF search_response.kind = "http_error" THEN ErrorDescription
    ELSE IF search_response.kind = "bad_payload" THEN ErrorDescription
    ELSE IF Len(search_response.items) > 0
         THEN IF search_response.items[1].snippet = Missing
              THEN NoDescription
              ELSE search_response.items[1].snippet[1]
         ELSE NoDescription

\* GoogleMapsPOIRetriever._get_search_snippet: the call and its st.error
search_events(poi, search_response) ==
    <<[api |-> "search", q |-> <<poi.name, poi.vicinity>>,
       response |-> search_response]>> \o
    ( IF search_response.kind = "http_error"
      THEN <<[api |-> "st.error", text |-> "HTTP Error calling Google Search"]>>
      ELSE IF search_response.kind = "bad_payload"
      THEN <<[api |-> "st.error", text |-> "Error processing search snippet"]>>
      ELSE <<>> )

\* f"{great_circle(a, b).km:.1f}": kilometres rounded to one decimal
format_km(a, b) ==
    LET sq == great_circle_sq(a, b)
        tenths == CHOOSE t \in 0 .. 3 :
                      /\ sq < (1000 * t + 500) * (1000 * t + 500)
                      /\ \A u \in 0 .. 3 :
                             sq < (1000 * u + 500) * (1000 * u + 500) => t <= u
    IN  <<"0.0", "0.1", "0.2", "0.3">>[tenths + 1]

\* lines 104-113: distance_km of one POI
distance_km(user_location, poi) ==
    IF truthy(poi.lat) /\ truthy(poi.lng)
    THEN format_km(user_location, <<poi.lat[1], poi.lng[1]>>)
    ELSE "N/A"

\* lines 119-129: the Document of one POI
document(user_location, poi, search_response) ==
    [page_content |-> get_search_snippet(search_response),
     metadata |-> [poi_name |-> poi.name, address |-> poi.vicinity,
                   source |-> "google_maps_and_search",
                   distance_km |-> distance_km(user_location, poi),
                   latitude |-> poi.lat, longitude |-> poi.lng]]

\* _get_relevant_documents that gives up at the first POI whose search
\* request fails
RECURSIVE documents_until_failure(_, _, _, _)
documents_until_failure(user_location, pois, search_responses, i) ==
    IF i > Len(pois) \/ search_responses[i].kind # "json" THEN <<>>
    ELSE <<document(user_location, pois[i], search_responses[i])>> \o
         documents_until_failure(user_location, pois, search_responses, i + 1)

get_documents_stopping(user_location, maps_response, search_responses) ==
    documents_until_failure(user_location, get_pois_from_maps(maps_response),
                            search_responses, 1)

\* GoogleMapsPOIRetriever._get_relevant_documents: the documents.
\* search_responses[i] is the search provider's answer to the query for POI i.
get_relevant_documents(user_location, maps_response, search_responses) ==
    LET pois == get_pois_from_maps(maps_response)
    IN  [i \in DOMAIN pois |->
            document(user_location, pois[i], search_responses[i])]

RECURSIVE search_events_all(_, _, _)
search_events_all(pois, search_responses, i) ==
    IF i > Len(pois) THEN <<>>
    ELSE search_events(pois[i], search_responses[i]) \o
         search_events_all(pois, search_responses, i + 1)

\* GoogleMapsPOIRetriever._get_relevant_documents: its external calls
retriever_events(maps_response, search_responses) ==
    maps_events(maps_response) \o
    search_events_all(get_pois_from_maps(maps_response), search_responses, 1)

(***************************************************************************)
(* get_rag_response                                                        *)
(***************************************************************************)
\* format_docs_for_prompt: one block per document
format_docs_for_prompt(docs) ==
    [i \in DOMAIN docs |->
        <<docs[i].metadata.poi_name, docs[i].metadata.distance_km,
          docs[i].metadata.address, docs[i].page_content>>]

\* lines 211-218: map_data
RECURSIVE map_data_of(_)
map_data_of(docs) ==
    IF docs = <<>> THEN <<>>
    ELSE ( IF truthy(Head(docs).metadata.latitude)
              /\ truthy(Head(docs).metadata.longitude)
           THEN <<[lat |-> Head(docs).metadata.latitude[1],
                   lon |-> Head(docs).metadata.longitude[1]]>>
           ELSE <<>> ) \o map_data_of(Tail(docs))

\* The body of get_rag_response under the answers env of the providers:
\* what it returns (or that it raises) and the external calls it makes.
\* env.llm is [kind |-> "text", text] or [kind |-> "error"].
get_rag_response(query, latitude, longitude, env) ==
    LET docs == get_relevant_documents(<<latitude, longitude>>, env.maps,
                                       env.search)
        retrieval == retriever_events(env.maps, env.search)
    IN  IF docs = <<>>
        THEN [kind |-> "return", summary |-> NothingFound, map_data |-> None,
              docs |-> docs, events |-> retrieval]
        ELSE LET events == retrieval \o
                     <<[api |-> "llm", context |-> format_docs_for_prompt(docs)]>>
             IN  IF env.llm.kind = "error"
                 THEN [kind |-> "raise", events |-> events]
                 ELSE [kind |-> "return", summary |-> env.llm.text,
                       map_data |-> [kind |-> "list",
                                     points |-> map_data_of(docs)],
                       docs |-> docs, events |-> events]

\* st.cache_data's key of a call: a parameter whose name starts with an
\* underscore is not hashed, and all four (_query, _latitude, _longitude,
\* _keys) do
cache_key(query, latitude, longitude) == <<>>

memo_has(entries, key) == \E i \in DOMAIN entries : entries[i].key = key

memo_get(entries, key) ==
    entries[CHOOSE i \in DOMAIN entries : entries[i].key = key].value

(***************************************************************************)
(* parse_markdown_table (utilities.py)                                     *)
(*                                                                         *)
(* A dict is the sequence of its <<key, value>> items, in insertion order; *)
(* NaN is the cell pandas fills in for a missing value.                    *)
(***************************************************************************)
Whitespace == {" ", "\t", "\n", "\r"}

NaN == "NaN"

\* c in s
contains(s, c) == \E i \in DOMAIN s : s[i] = c

\* str.lstrip(chars)
RECURSIVE lstrip(_, _)
lstrip(s, chars) ==
    IF s # <<>> /\ Head(s) \in chars THEN lstrip(Tail(s), chars) ELSE s

\* str.rstrip(chars)
RECURSIVE rstrip(_, _)
rstrip(s, chars) ==
    IF s # <<>> /\ s[Len(s)] \in chars
    THEN rstrip(SubSeq(s, 1, Len(s) - 1), chars) ELSE s

\* str.strip(chars)
strip(s, chars) == rstrip(lstrip(s, chars), chars)

\* str.split(sep), sep one character
RECURSIVE split(_, _)
split(s, sep) ==
    IF ~contains(s, sep) THEN <<s>>
    ELSE LET i == CHOOSE j \in DOMAIN s :
                      s[j] = sep /\ \A k \in 1 .. j - 1 : s[k] # sep
         IN  <<SubSeq(s, 1, i - 1)>> \o split(SubSeq(s, i + 1, Len(s)), sep)

\* sep.join(parts)
RECURSIVE join(_, _)
join(parts, sep) ==
    IF parts = <<>> THEN <<>>
    ELSE IF Len(parts) = 1 THEN parts[1]
    ELSE parts[1] \o <<sep>> \o join(Tail(parts), sep)

\* lines 19-33: the metadata kept for each document.  doc.metadata is a dict,
\* and meta.latitude on a dict raises AttributeError: the except branch
\* appends an empty dict, for every document
extract_meta_data(docs) == [i \in DOMAIN docs |-> <<>>]

\* the keys of a list of dicts, each once, in the order they first come
RECURSIVE dict_keys(_, _)
dict_keys(items, seen) ==
    IF items = <<>> THEN <<>>
    ELSE IF Head(items)[1] \in seen THEN dict_keys(Tail(items), seen)
    ELSE <<Head(items)[1]>> \o
         dict_keys(Tail(items), seen \cup {Head(items)[1]})

RECURSIVE concat_all(_)
concat_all(seqs) ==
    IF seqs = <<>> THEN <<>> ELSE Head(seqs) \o concat_all(Tail(seqs))

dict_get(d, key) ==
    IF \E i \in DOMAIN d : d[i][1] = key
    THEN d[CHOOSE i \in DOMAIN d : d[i][1] = key][2]
    ELSE NaN

\* pd.DataFrame(list of dicts) (pd.DataFrame() for an empty list)
dataframe_of_dicts(dicts) ==
    LET columns == dict_keys(concat_all(dicts), {})
    IN  [columns |-> columns,
         rows |-> [i \in DOMAIN dicts |->
                      [c \in DOMAIN columns |-> dict_get(dicts[i], columns[c])]]]

\* df.iloc[:n].reset_index(drop=True)
iloc_head(df, n) ==
    [df EXCEPT !.rows = SubSeq(@, 1, IF n < Len(@) THEN n ELSE Len(@))]

\* pd.concat([a, b], axis=1) of two frames indexed 0, 1, ...
concat_columns(a, b) ==
    LET n == IF Len(a.rows) > Len(b.rows) THEN Len(a.rows) ELSE Len(b.rows)
        cells(df, i) == IF i <= Len(df.rows) THEN df.rows[i]
                        ELSE [c \in DOMAIN df.columns |-> NaN]
    IN  [columns |-> a.columns \o b.columns,
         rows |-> [i \in 1 .. n |-> cells(a, i) \o cells(b, i)]]

\* split_row (lines 43-46)
split_row(row_str) ==
    LET parts == split(strip(row_str, {"|"}), "|")
    IN  [i \in DOMAIN parts |-> strip(parts[i], Whitespace)]

\* the rows of lines 52-57, with lines[2:] read from index first on
data_rows_from(lines, first, headers) ==
    LET rest == SubSeq(lines, first, Len(lines))
        rows == [i \in DOMAIN rest |-> split_row(rest[i])]
    IN  SelectSeq(rows, LAMBDA row_data : Len(row_data) = Len(headers))

\* parse_markdown_table that takes the second table line as a data row
parse_keeping_second_line(md_string, docs) ==
    LET all_lines == split(md_string, "\n")
        lines == [i \in DOMAIN SelectSeq(all_lines, LAMBDA l : contains(l, "|"))
                  |-> strip(SelectSeq(all_lines,
                                      LAMBDA l : contains(l, "|"))[i], Whitespace)]
    IN  IF lines = <<>> THEN [columns |-> <<>>, rows |-> <<>>]
        ELSE [columns |-> split_row(lines[1]),
              rows |-> data_rows_from(lines, 2, split_row(lines[1]))]

\* parse_markdown_table
parse_markdown_table(md_string, docs) ==
    LET meta_df == dataframe_of_dicts(extract_meta_data(docs))
        all_lines == split(md_string, "\n")
        table_lines == SelectSeq(all_lines, LAMBDA l : contains(l, "|"))
        lines == [i \in DOMAIN table_lines |-> strip(table_lines[i], Whitespace)]
    IN  IF lines = <<>> THEN [columns |-> <<>>, rows |-> <<>>]
        ELSE LET headers == split_row(lines[1])
                 parsed_df == [columns |-> headers,
                               rows |-> data_rows_from(lines, 3, headers)]
             IN  concat_columns(parsed_df,
                                iloc_head(meta_df, Len(parsed_df.rows)))

(***************************************************************************)
(* The page a script run leaves (app.py, sections 8 and 9)                 *)
(*                                                                         *)
(* errors are the st.error messages of the pipeline still on the page,     *)
(* exception tells whether the run ended in an uncaught exception, map     *)
(* whether the map is drawn, summary is the summary text shown ("" when    *)
(* the results section is not drawn).                                      *)
(***************************************************************************)
\* lines 397-413: the results section of a complete run of the script
display_results(s) ==
    IF s.authenticated /\ s.summary # ""
    THEN [errors |-> <<>>, exception |-> FALSE,
          map |-> ( /\ s.map_data # None
                    /\ s.map_data.points # <<>> ),
          summary |-> s.summary]
    ELSE [errors |-> <<>>, exception |-> FALSE, map |-> FALSE, summary |-> ""]

\* a run that get_rag_response ends with an exception (line 386): the
\* messages written so far and the exception are shown, and the script never
\* reaches the results section
display_exception(st_errors) ==
    [errors |-> st_errors, exception |-> TRUE, map |-> FALSE, summary |-> ""]

(***************************************************************************)
(* Operations                                                              *)
(***************************************************************************)
Init ==
    /\ store = <<>>
    /\ seq = 0
    /\ call = [op |-> "init"]
    /\ ret = None
    /\ log = <<>>
    /\ session = [authenticated |-> FALSE, all_keys_provided |-> FALSE,
                  summary |-> "", map_data |-> None]
    /\ memo = <<>>
    /\ page = display_results(session)

Find(query_text, lat, lon, threshold_meters) ==
    /\ call' = [op |-> "find", query_text |-> query_text, lat |-> lat,
                lon |-> lon, threshold_meters |-> threshold_meters]
    /\ ret' = find_nearby_query(store, query_text, lat, lon, threshold_meters)
    /\ log' = <<>>
    /\ UNCHANGED <<storeVars, appVars>>

Save(query_text, lat, lon, df, summary, now) ==
    /\ Len(store) < MaxRecords
    /\ store' = save_query_result(store, seq + 1, query_text, lat, lon, df,
                                  summary, now)
    /\ seq' = seq + 1
    /\ call' = [op |-> "save", query_text |-> query_text, lat |-> lat,
                lon |-> lon, df |-> df, summary |-> summary]
    /\ ret' = None
    /\ log' = <<>>
    /\ UNCHANGED appVars

\* a stored table_data text damaged outside the program
CorruptRow(i) ==
    /\ store[i].table_data # Garbage
    /\ store' = [store EXCEPT ![i].table_data = Garbage]
    /\ call' = [op |-> "corrupt", id |-> store[i].id]
    /\ ret' = None
    /\ log' = <<>>
    /\ UNCHANGED <<seq, appVars>>

(***************************************************************************)
(* The page (app.py)                                                       *)
(***************************************************************************)
\* lines 325-344: the password is right; the keys are loaded into the session,
\* and keys_ok tells whether the deployment has all four
Login(keys_ok) ==
    /\ ~session.authenticated
    /\ session' = [session EXCEPT !.authenticated = TRUE,
                                  !.all_keys_provided = keys_ok]
    /\ page' = display_results(session')
    /\ call' = [op |-> "login"]
    /\ ret' = None
    /\ log' = <<>>
    /\ UNCHANGED <<storeVars, memo>>

\* lines 384-394: "Explore Nearby!" with the providers answering env
Submit(query, latitude, longitude, env) ==
    /\ session.authenticated
    /\ session.all_keys_provided
    /\ LET key == cache_key(query, latitude, longitude)
           hit == memo_has(memo, key)
           run == get_rag_response(query, latitude, longitude, env)
           st_errors == SelectSeq(run.events, LAMBDA e : e.api = "st.error")
           value == IF hit THEN memo_get(memo, key)
                    ELSE [summary |-> run.summary, map_data |-> run.map_data,
                          replay |-> st_errors]
       IN  /\ call' = [op |-> "submit", query |-> query, lat |-> latitude,
                       lon |-> longitude]
           /\ IF ~hit /\ run.kind = "raise"
              THEN /\ ret' = [kind |-> "raise"]
                   /\ log' = run.events
                   /\ page' = display_exception(st_errors)
                   /\ UNCHANGED <<session, memo>>
              ELSE /\ ret' = [kind |-> "return", summary |-> value.summary,
                              map_data |-> value.map_data]
                   /\ log' = IF hit THEN value.replay ELSE run.events
                   /\ memo' = IF hit THEN memo
                              ELSE Append(memo,
                                          [key |-> key, value |-> value,
                                           args |-> <<query, latitude,
                                                      longitude>>])
                   /\ session' = [session EXCEPT !.summary = value.summary,
                                                 !.map_data = value.map_data]
                   \* line 394: st.rerun() drops what this run has drawn,
                   \* its st.error messages included, and draws the page anew
                   /\ page' = display_results(session')
    /\ UNCHANGED storeVars

\* clear_cache, behind "Clear Cache & Start Over" (lines 397, 434-435)
ClearCache ==
    /\ session.authenticated
    /\ session.summary # ""
    /\ memo' = <<>>
    /\ session' = [session EXCEPT !.summary = "", !.map_data = None]
    /\ page' = display_results(session')
    /\ call' = [op |-> "clear"]
    /\ ret' = None
    /\ log' = <<>>
    /\ UNCHANGED storeVars

FindAny ==
    \E q \in QueryTexts, loc \in Locations, th \in Thresholds :
        Find(q, loc[1], loc[2], th)

SaveAny ==
    \E q \in QueryTexts, loc \in Locations, df \in DataFrames,
       summary \in Summaries, now \in ClockReadings :
        Save(q, loc[1], loc[2], df, summary, now)

CorruptAny == \E i \in DOMAIN store : CorruptRow(i)

Next == FindAny \/ SaveAny

Spec == Init /\ [][Next]_vars

\* SpecFault: the store with table_data texts damaged on disk
FaultLocations == { <<0, 0>>, <<0, 1>> }

SaveFault ==
    \E q \in QueryTexts, loc \in FaultLocations, df \in DataFrames,
       summary \in Summaries, now \in ClockReadings :
        Save(q, loc[1], loc[2], df, summary, now)

FindFault ==
    \E q \in QueryTexts, loc \in FaultLocations, th \in Thresholds :
        Find(q, loc[1], loc[2], th)

NextFault == FindFault \/ SaveFault \/ CorruptAny

SpecFault == Init /\ [][NextFault]_vars

\* SpecApp: the page over a store
AppQueries == { <<"m", "u">>, <<"c", "a">> }

AppLocations == { <<0, 0>>, <<0, 1>> }

AppClockReadings == { [sec |-> 0, micro |-> 1], [sec |-> 1, micro |-> 0] }

poiA == [name |-> "p1", vicinity |-> "v", lat |-> <<9>>, lng |-> <<9>>]

poiZero == [name |-> "p2", vicinity |-> "v", lat |-> <<0>>, lng |-> <<9>>]

poiNoCoords == [name |-> "p2", vicinity |-> "v", lat |-> <<>>, lng |-> <<>>]

AppMapsResponses ==
    { [kind |-> "http_error"],
      [kind |-> "json", status |-> "ZERO_RESULTS", results |-> <<>>],
      [kind |-> "json", status |-> "REQUEST_DENIED", results |-> <<poiA>>],
      [kind |-> "json", status |-> "OK", results |-> <<>>],
      [kind |-> "json", status |-> "OK", results |-> <<poiA>>],
      [kind |-> "json", status |-> "OK", results |-> <<poiZero>>],
      [kind |-> "json", status |-> "OK", results |-> <<poiA, poiNoCoords>>] }

AppSearchResponses ==
    { [kind |-> "http_error"],
      [kind |-> "json", items |-> <<[snippet |-> <<"s1">>]>>] }

AppLlmResponses ==
    { [kind |-> "error"], [kind |-> "text", text |-> "T1"] }

\* one answer of the search provider for each POI the mapping provider gives
AppEnvs ==
    UNION { [maps : {m},
             search : [1 .. Len(get_pois_from_maps(m)) -> AppSearchResponses],
             llm : AppLlmResponses] : m \in AppMapsResponses }

LoginAny == \E keys_ok \in BOOLEAN : Login(keys_ok)

SubmitAny ==
    \E q \in AppQueries, loc \in AppLocations, env \in AppEnvs :
        Submit(q, loc[1], loc[2], env)

AppSummaries == { "S1", "S2" }

SaveApp ==
    \E df \in DataFrames, summary \in AppSummaries, now \in AppClockReadings :
        Save(<<"m", "u">>, 0, 0, df, summary, now)

FindApp ==
    \E q \in AppQueries, loc \in AppLocations :
        Find(q, loc[1], loc[2], DefaultThreshold)

NextApp == LoginAny \/ SubmitAny \/ ClearCache \/ SaveApp \/ FindApp

SpecApp == Init /\ [][NextApp]_vars

\* SpecRetriever: one run of the retriever on each answer of the providers
RetrieverInputs ==
    UNION { [op : {"retrieve"}, user_location : {<<0, 0>>}, maps : {m},
             search : [1 .. Len(get_pois_from_maps(m)) -> SearchResponses]] :
            m \in MapsResponses }

InitRetriever ==
    /\ store = <<>>
    /\ seq = 0
    /\ call \in RetrieverInputs
    /\ ret = [kind |-> "pending"]
    /\ log = <<>>
    /\ session = [authenticated |-> FALSE, all_keys_provided |-> FALSE,
                  summary |-> "", map_data |-> None]
    /\ memo = <<>>
    /\ page = display_results(session)

\* retriever.invoke(query)
Retrieve ==
    /\ call.op = "retrieve"
    /\ ret.kind = "pending"
    /\ ret' = [kind |-> "docs",
               docs |-> get_relevant_documents(call.user_location, call.maps,
                                               call.search)]
    /\ log' = retriever_events(call.maps, call.search)
    /\ UNCHANGED <<call, storeVars, appVars>>

SpecRetriever == InitRetriever /\ [][Retrieve]_vars

\* SpecParse: one call of parse_markdown_table on each text
docA ==
    document(<<0, 0>>, [name |-> "p1", vicinity |-> "v", lat |-> <<9>>,
                        lng |-> <<9>>],
             [kind |-> "json", items |-> <<[snippet |-> <<"s1">>]>>])

docB ==
    document(<<0, 0>>, [name |-> "p2", vicinity |-> "v", lat |-> <<0>>,
                        lng |-> <<9>>],
             [kind |-> "http_error"])

ParseInputs ==
    { [op |-> "parse", md_string |-> join(ls, "\n"), lines |-> ls, docs |-> ds] :
      ls \in SeqUpTo(LinePool, MaxLines),
      ds \in { <<>>, <<docA>>, <<docA, docB>> } }

InitParse ==
    /\ store = <<>>
    /\ seq = 0
    /\ call \in ParseInputs
    /\ ret = [kind |-> "pending"]
    /\ log = <<>>
    /\ session = [authenticated |-> FALSE, all_keys_provided |-> FALSE,
                  summary |-> "", map_data |-> None]
    /\ memo = <<>>
    /\ page = display_results(session)

Parse ==
    /\ call.op = "parse"
    /\ ret.kind = "pending"
    /\ ret' = [kind |-> "df",
               df |-> parse_markdown_table(call.md_string, call.docs)]
    /\ UNCHANGED <<call, log, storeVars, appVars>>

SpecParse == InitParse /\ [][Parse]_vars

(***************************************************************************)
(* Properties of the proximity cache                                       *)
(***************************************************************************)
\* the stored rows a probe is about: the same query text but for letter case,
\* and no further than the threshold from the probe's location
Matches(rows, probe) ==
    { i \in DOMAIN rows :
        /\ lower(rows[i].query) = lower(probe.query_text)
        /\ within(<<probe.lat, probe.lon>>, <<rows[i].lat, rows[i].lon>>,
                  probe.threshold_meters) }

\* the clock reading an ISO timestamp stands for
fromisoformat(ts) ==
    [sec |-> ts[1], micro |-> IF Len(ts) > 1 THEN ts[2] ELSE 0]

\* clock reading a is later than clock reading b
Later(a, b) == a.sec > b.sec \/ (a.sec = b.sec /\ a.micro > b.micro)

\* a stored row as find_nearby_query returns it
Returned(row) == Row([row EXCEPT !.table_data = json_loads(@)])

\* C1: find_nearby_query returns none exactly when no stored row has the
\* probe's query text (letter case ignored) within threshold_meters of the
\* probe's location, and a row it returns is such a row.
C1_FindNoneIffNoMatch ==
    call.op = "find" =>
        LET m == Matches(store, call)
        IN  /\ ret = None <=> m = {}
            /\ m # {} => ret.kind = "row"
            /\ ret.kind = "row" => \E i \in m : ret = Returned(store[i])

C1_Witness ==
    /\ call.op = "find"
    /\ call.query_text = <<"M", "U">>
    /\ ret.kind = "row"
    /\ ret.row.query = <<"m", "u">>
    /\ \E i \in DOMAIN store : i \notin Matches(store, call)

\* C2 (as claimed): a find for the query and location of the last save, made
\* before any further save, returns the row that save created: its summary
\* and its table data.
C2_LastSaveReturned ==
    ( /\ call.op = "find"
      /\ store # <<>>
      /\ lower(call.query_text) = store[Len(store)].query
      /\ call.lat = store[Len(store)].lat
      /\ call.lon = store[Len(store)].lon )
    => /\ ret.kind = "row"
       /\ ret.row.summary = store[Len(store)].summary
       /\ ret.row.table_data = json_loads(store[Len(store)].table_data)

\* C3: of the rows that match the probe, find_nearby_query returns one whose
\* timestamp no other matching row's timestamp is later than; when one row is
\* later than all the others, that row.
C3_LatestReturned ==
    (call.op = "find" /\ ret.kind = "row") =>
        LET m == Matches(store, call)
        IN  /\ \E i \in m : ret.row.id = store[i].id
            /\ \A i \in m :
                   ~Later(fromisoformat(store[i].timestamp),
                          fromisoformat(ret.row.timestamp))

C3_Witness ==
    /\ call.op = "find"
    /\ Len(store) >= 2
    /\ {1, 2} \subseteq Matches(store, call)
    /\ Later(fromisoformat(store[1].timestamp),
             fromisoformat(store[2].timestamp))
    /\ Len(store[1].timestamp) < Len(store[2].timestamp)
    /\ ret = Returned(store[1])

\* C4: the store is append-only: a save adds one row whose id is greater than
\* every id in the store and changes no other row; find, login and a query
\* submission leave the store as it is; only the cache-clear action may drop a
\* row.
C4_AppendOnly ==
    [][ /\ call'.op = "save" =>
            /\ Len(store') = Len(store) + 1
            /\ SubSeq(store', 1, Len(store)) = store
            /\ \A i \in DOMAIN store : store'[Len(store')].id > store[i].id
        /\ call'.op \in {"find", "submit", "login"} => store' = store
        /\ call'.op # "clear" =>
            \A i \in DOMAIN store : \E j \in DOMAIN store' : store'[j] = store[i]
      ]_vars

C4_Witness ==
    /\ call.op = "submit"
    /\ Len(store) = 2
    /\ store[1].query = store[2].query
    /\ store[1].lat = store[2].lat /\ store[1].lon = store[2].lon
    /\ store[1].id < store[2].id
    /\ session.summary # ""

\* C10: find_nearby_query ends in a deserialization fault exactly when some
\* row that matches the probe has a table_data text that cannot be decoded:
\* then it returns no row, not even a newer one that decodes; a damaged row
\* that does not match the probe changes nothing; the store is left as it is.
C10_FaultIffDamagedMatch ==
    [][ call'.op = "find" =>
            /\ store' = store
            /\ ret' = Fault <=>
                 \E i \in Matches(store, call') :
                     json_loads_raises(store[i].table_data)
            /\ ret' # Fault =>
                 (ret' = None <=> Matches(store, call') = {})
      ]_vars

C10_Witness ==
    /\ call.op = "find"
    /\ ret = Fault
    /\ \E i, j \in Matches(store, call) :
           /\ json_loads_raises(store[i].table_data)
           /\ ~json_loads_raises(store[j].table_data)
           /\ Later(fromisoformat(store[j].timestamp),
                    fromisoformat(store[i].timestamp))

(***************************************************************************)
(* Properties of the page and of the retrieval pipeline                    *)
(***************************************************************************)
ProviderCalls(events) ==
    SelectSeq(events, LAMBDA e : e.api \in {"maps", "search", "llm"})

Calls(events, api) == SelectSeq(events, LAMBDA e : e.api = api)

\* C5 (as claimed): a submission looks the proximity cache up first: when a
\* stored row matches the submission's query and location no provider is
\* called, and when none matches and retrieval and summarization succeed a row
\* for the query and location is written.
C5_CacheLookedUpFirst ==
    [][ call'.op = "submit" =>
            LET hit == find_nearby_query(store, call'.query, call'.lat,
                                         call'.lon, DefaultThreshold)
            IN  /\ hit.kind = "row" => ProviderCalls(log') = <<>>
                /\ ( /\ hit = None
                     /\ ret'.kind = "return"
                     /\ Calls(log', "llm") # <<>> )
                   => /\ Len(store') = Len(store) + 1
                      /\ store'[Len(store')].query = lower(call'.query)
                      /\ store'[Len(store')].lat = call'.lat
                      /\ store'[Len(store')].lon = call'.lon
                      /\ store'[Len(store')].summary = ret'.summary
      ]_vars

\* the mapping provider's answer gives no POI: an HTTP failure, a status that
\* is not OK, or an empty list
NoPois(maps_response) ==
    \/ maps_response.kind = "http_error"
    \/ maps_response.status # "OK"
    \/ maps_response.results = <<>>

\* C6: when the mapping provider gives no POI for a submission, the retriever
\* returns no document, no search query and no language-model call is made,
\* and the submission ends with the fixed nothing-found result.
C6_NoPoisNothingFound ==
    ( /\ call.op = "submit"
      /\ \E i \in DOMAIN log : log[i].api = "maps" /\ NoPois(log[i].response) )
    => /\ Calls(log, "search") = <<>>
       /\ Calls(log, "llm") = <<>>
       /\ \A i \in DOMAIN log :
              log[i].api = "maps" =>
                  get_relevant_documents(<<call.lat, call.lon>>,
                                         log[i].response, <<>>) = <<>>
       /\ ret = [kind |-> "return", summary |-> NothingFound,
                 map_data |-> None]
       /\ session.summary = NothingFound
       /\ session.map_data = None

C6_Witness ==
    /\ call.op = "submit"
    /\ \E i \in DOMAIN log :
           /\ log[i].api = "maps"
           /\ log[i].response.kind = "json"
           /\ log[i].response.status # "OK"
           /\ log[i].response.results # <<>>
    /\ session.summary = NothingFound

\* the mapping provider's call failed: an HTTP failure, or a status that
\* reports neither results nor their absence
FailedMaps(maps_response) ==
    \/ maps_response.kind = "http_error"
    \/ maps_response.status \notin {"OK", "ZERO_RESULTS"}

\* the mapping provider answered that there is no result
ZeroResults(maps_response) ==
    /\ maps_response.kind = "json"
    /\ maps_response.status \in {"OK", "ZERO_RESULTS"}
    /\ maps_response.results = <<>>

\* the pages the current submission would have left, had the mapping
\* provider answered it with zero results
ZeroResultsPages ==
    { LET run == get_rag_response(call.query, call.lat, call.lon,
                                  [maps |-> m, search |-> <<>>,
                                   llm |-> [kind |-> "error"]])
      IN  display_results([session EXCEPT !.summary = run.summary,
                                          !.map_data = run.map_data]) :
      m \in { r \in AppMapsResponses : ZeroResults(r) } }

\* C11 (as claimed): once a submission whose mapping-provider call failed is
\* over and the page drawn again, the page shows the nothing-found text or an
\* error message, and it is not the page of a submission that the provider
\* answered with zero results.
C11_FailureShownApart ==
    ( /\ call.op = "submit"
      /\ ret.kind = "return"
      /\ \E i \in DOMAIN log :
             log[i].api = "maps" /\ FailedMaps(log[i].response) )
    => /\ page.summary = NothingFound \/ page.errors # <<>>
       /\ page \notin ZeroResultsPages

\* C12 (as claimed): a submission that get_rag_response answers without
\* running the pipeline gets the result of an earlier call, made since the
\* cache was last cleared, with the same query, latitude and longitude.
C12_MemoKeyedByArguments ==
    [][ ( /\ call'.op = "submit"
          /\ ret'.kind = "return"
          /\ Calls(log', "maps") = <<>> )
        => \E i \in DOMAIN memo :
               /\ memo[i].args = <<call'.query, call'.lat, call'.lon>>
               /\ ret'.summary = memo[i].value.summary
               /\ ret'.map_data = memo[i].value.map_data
               /\ session'.summary = memo[i].value.summary
               /\ session'.map_data = memo[i].value.map_data
      ]_vars

\* C13 (as claimed): in a submission that ran the pipeline to its end, the
\* distance handed on for a POI is the sentinel "N/A" exactly when the
\* mapping provider gave no latitude or no longitude for it, and every POI
\* with both, a coordinate equal to 0 included, is a point of the map data.
C13_SentinelIffCoordinateAbsent ==
    ( /\ call.op = "submit"
      /\ ret.kind = "return"
      /\ Calls(log, "llm") # <<>> )
    => LET pois == get_pois_from_maps(Calls(log, "maps")[1].response)
           context == Calls(log, "llm")[1].context
       IN  \A i \in DOMAIN pois :
               /\ context[i][2] = "N/A"
                   <=> (pois[i].lat = Missing \/ pois[i].lng = Missing)
               /\ (pois[i].lat # Missing /\ pois[i].lng # Missing)
                   => \E j \in DOMAIN ret.map_data.points :
                          ret.map_data.points[j] =
                              [lat |-> pois[i].lat[1], lon |-> pois[i].lng[1]]

\* the search provider's answer for a POI is a failure or carries no snippet
NoSnippet(search_response) ==
    \/ search_response.kind # "json"
    \/ search_response.items = <<>>
    \/ search_response.items[1].snippet = <<>>

\* C7: the retriever returns one document per POI, in the mapping provider's
\* order; document i has a fixed placeholder as its snippet when the search
\* for POI i failed or gave nothing and the snippet found otherwise; another
\* answer to the search for POI i changes no document but document i.
C7_OneDocumentPerPoi ==
    (call.op = "retrieve" /\ ret.kind = "docs" /\ call.maps.kind = "json"
     /\ call.maps.status = "OK") =>
        LET pois == call.maps.results
            docs == ret.docs
        IN  /\ Len(docs) = Len(pois)
            /\ \A i \in DOMAIN pois :
                   /\ docs[i].metadata.poi_name = pois[i].name
                   /\ docs[i].metadata.address = pois[i].vicinity
                   /\ docs[i].metadata.latitude = pois[i].lat
                   /\ docs[i].metadata.longitude = pois[i].lng
                   /\ IF NoSnippet(call.search[i])
                      THEN docs[i].page_content =
                               ( IF call.search[i].kind = "json"
                                 THEN NoDescription ELSE ErrorDescription )
                      ELSE docs[i].page_content =
                               call.search[i].items[1].snippet[1]
            /\ \A i \in DOMAIN pois : \A other \in SearchResponses :
                   LET docs2 == get_relevant_documents(call.user_location,
                                    call.maps, [call.search EXCEPT ![i] = other])
                   IN  /\ Len(docs2) = Len(docs)
                       /\ \A j \in DOMAIN pois : j # i => docs2[j] = docs[j]

C7_Witness ==
    /\ call.op = "retrieve"
    /\ ret.kind = "docs"
    /\ Len(ret.docs) = 2
    /\ call.search[1].kind = "http_error"
    /\ ret.docs[1].page_content = ErrorDescription
    /\ ret.docs[2].page_content = "s1"
    /\ ret.docs[1].metadata.poi_name # ret.docs[2].metadata.poi_name

(***************************************************************************)
(* Properties of parse_markdown_table                                      *)
(***************************************************************************)
\* the cells of a table line: the text between the delimiters, the
\* delimiters and blanks at both ends of the line left out, each cell trimmed
Cells(line) ==
    LET t == strip(line, Whitespace)
        from == IF \E i \in DOMAIN t : t[i] # "|"
                THEN CHOOSE i \in DOMAIN t :
                         t[i] # "|" /\ \A k \in 1 .. i - 1 : t[k] = "|"
                ELSE Len(t) + 1
        to == IF \E i \in DOMAIN t : t[i] # "|"
              THEN CHOOSE i \in DOMAIN t :
                       t[i] # "|" /\ \A k \in i + 1 .. Len(t) : t[k] = "|"
              ELSE Len(t)
        bars == {i \in from .. to : t[i] = "|"}
        starts == {from} \cup {i + 1 : i \in bars}
        cell(a) == LET b == CHOOSE e \in a - 1 .. to :
                                /\ e = to \/ e + 1 \in bars
                                /\ \A k \in a .. e : k \notin bars
                   IN  strip(SubSeq(t, a, b), Whitespace)
        ordered == CHOOSE f \in [1 .. Cardinality(starts) -> starts] :
                       \A i, j \in 1 .. Cardinality(starts) :
                           i < j => f[i] < f[j]
    IN  [i \in 1 .. Cardinality(starts) |-> cell(ordered[i])]

\* C8: the frame's columns are the header's cells, and its rows are, in input
\* order, the cells of the delimiter-containing lines after the first two that
\* have as many cells as the header; the second such line is never a row; a
\* text without a delimiter-containing line gives the empty frame.
C8_RowsAfterSecondLine ==
    (call.op = "parse" /\ ret.kind = "df") =>
        LET kept == SelectSeq(call.lines, LAMBDA l : contains(l, "|"))
            rest == SubSeq(kept, 3, Len(kept))
            good == SelectSeq(rest,
                        LAMBDA l : Len(Cells(l)) = Len(Cells(kept[1])))
            parsed == Len(Cells(kept[1]))
        IN  IF kept = <<>>
            THEN ret.df = [columns |-> <<>>, rows |-> <<>>]
            ELSE /\ SubSeq(ret.df.columns, 1, parsed) = Cells(kept[1])
                 /\ Len(ret.df.rows) = Len(good)
                 /\ \A i \in DOMAIN good :
                        SubSeq(ret.df.rows[i], 1, parsed) = Cells(good[i])

C8_Witness ==
    /\ call.op = "parse"
    /\ ret.kind = "df"
    /\ call.lines = << <<"A", "|", "B">>, <<"x", "|", "y">>,
                       <<"x", "|", "y", "|", "z">>,
                       <<" ", "|", " ", "x", " ", "|", "y", "|", " ">> >>
    /\ call.docs = <<>>
    /\ ret.df = [columns |-> << <<"A">>, <<"B">> >>,
                 rows |-> << << <<"x">>, <<"y">> >> >>]

MetaFields == {"poi_name", "address", "distance_km", "latitude", "longitude"}

\* C9 (as claimed): with documents given, row i of the frame carries, beside
\* the parsed cells of data row i, the metadata fields of document i, for
\* every parsed row that has a document.
C9_RowsCarryMetadata ==
    (call.op = "parse" /\ ret.kind = "df" /\ call.docs # <<>>) =>
        LET kept == SelectSeq(call.lines, LAMBDA l : contains(l, "|"))
            parsed == IF kept = <<>> THEN 0 ELSE Len(Cells(kept[1]))
        IN  \A i \in DOMAIN ret.df.rows :
                i <= Len(call.docs) =>
                    \A f \in MetaFields :
                        \E c \in parsed + 1 .. Len(ret.df.columns) :
                            /\ ret.df.columns[c] = f
                            /\ ret.df.rows[i][c] = call.docs[i].metadata[f]

====
